---- MODULE Spec2Model ----
(***************************************************************************)
(* The asynchronous job pipeline of the Replay server:                     *)
(*   JobsService           src/server/src/services/jobs_service.py         *)
(*   TranscriptionService  src/server/src/services/transcription_service.py*)
(*   start_worker.handler  src/server/src/app.py                           *)
(*   SessionService        src/server/src/services/session_service.py      *)
(*   ingest_recording      src/server/src/api/uploads.py                   *)
(*                                                                         *)
(* The relational store is the shared state.  Every coroutine (a worker,  *)
(* an HTTP request) holds ORM objects, which are private copies of rows:   *)
(* they are read at a SELECT, changed by assignments, and a commit writes  *)
(* the assigned fields back (the session factory is built with             *)
(* expire_on_commit=False, so a copy is re-read only by refresh()).  One   *)
(* step of the model is one database round trip, or one synchronous        *)
(* operation on the in-process asyncio queue; everything a coroutine does  *)
(* between two awaits on its own objects is folded into the step before.  *)
(***************************************************************************)
EXTENDS Integers, Sequences, FiniteSets, TLC

\* ------------------------------------------------------------------ bounds
MaxSessions == 1
MaxJobs == 1
MsgLen == 3

\* ------------------------------------------------------- program constants
NumWorkers == 2
DefaultMaxRetries == 3
RetryErrorLen == 200
ErrorColumnLen == 255

Workers == 1..NumWorkers

\* ------------------------------------------------------------------- text
\* A string is a sequence of one-character strings.
None == <<>>

Some(x) == <<x>>

Min(a, b) == IF a < b THEN a ELSE b

\* s, not cut.
PrefixWhole(s, n) == s

\* s[:n]
Prefix(s, n) == SubSeq(s, 1, Min(n, Len(s)))

Digits == <<"0", "1", "2", "3", "4", "5", "6", "7", "8", "9">>

RECURSIVE DecStr(_)
\* str(n) for n >= 0
DecStr(n) == IF n < 10 THEN <<Digits[n + 1]>>
             ELSE DecStr(n \div 10) \o <<Digits[(n % 10) + 1]>>

\* A text of n characters: the digits in turn, so that a prefix of it differs
\* from every other piece of it of the same length.
Text(n) == [i \in 1..n |-> Digits[(i % 10) + 1]]

\* "Cancelled by user (session deleted)"
CancelNote == <<"C","a","n","c","e","l","l","e","d"," ","b","y"," ","u","s","e","r"," ",
                "(","s","e","s","s","i","o","n"," ","d","e","l","e","t","e","d",")">>

\* f"Retry {attempts}/{max_retries}: {error[:200]}"
RetryNote(attempts, max_retries, error) ==
    <<"R","e","t","r","y"," ">> \o DecStr(attempts) \o <<"/">> \o DecStr(max_retries)
        \o <<":"," ">> \o Prefix(error, RetryErrorLen)

\* --------------------------------------------------------------- job rows
\* A Job built without session_id=session.id: the column stays NULL (0).
NewJobUnreferenced(sid) == [job_type |-> "transcription", session_id |-> 0, payload |-> sid,
                            status |-> "pending", attempts |-> 0, error |-> None]

\* Job(job_type="transcription", session_id=session.id,
\*     payload=json.dumps({"session_id": session.id})); the column defaults
\* give status "pending", attempts 0, error NULL.
NewJob(sid) == [job_type |-> "transcription", session_id |-> sid, payload |-> sid,
                status |-> "pending", attempts |-> 0, error |-> None]

\* reserve_next, lines 38-41: the loaded object gets status "processing" and
\* attempts = loaded attempts + 1, and the commit writes both.
ReservedRow(row, loadedAttempts) ==
    [row EXCEPT !.status = "processing", !.attempts = loadedAttempts + 1]

\* mark_complete
CompletedRow(row) == [row EXCEPT !.status = "completed"]

\* mark_failed decides on the attempts of the caller's job object.
WillRetryInclusive(attempts, max_retries) == attempts <= max_retries

WillRetry(attempts, max_retries) == attempts < max_retries

\* mark_failed(job, error, max_retries): the row after the commit.
FailedRow(row, attempts, error, max_retries) ==
    IF WillRetry(attempts, max_retries)
    THEN [row EXCEPT !.status = "pending",
                     !.error = Some(RetryNote(attempts, max_retries, error))]
    ELSE [row EXCEPT !.status = "failed",
                     !.error = Some(Prefix(error, ErrorColumnLen))]

\* cancel_session_jobs, the WHERE clause of its SELECT.
CancelSelectsPending(row, sid) ==
    row.session_id = sid /\ row.status \in {"pending"}

CancelSelects(row, sid) ==
    row.session_id = sid /\ row.status \in {"pending", "processing"}

\* cancel_session_jobs, the loop body.
CancelledRow(row) == [row EXCEPT !.status = "failed", !.error = Some(CancelNote)]

\* ------------------------------------------------------------------ state
VARIABLES
    jobs,       \* the jobs table: jobs[id] is the row with that id
    queue,      \* JobsService._queue, the in-process asyncio.Queue of job ids
    sessions,   \* the sessions table with each session's transcript and summary row
    rowids,     \* the next primary key of the transcripts and of the summaries table
    workers,    \* each run_worker task: where it is and its own objects
    ingest,     \* the request that is inside enqueue_transcription
    deleter,    \* the request that is inside delete_session
    hist        \* what has happened so far (read by the properties only)

vars == <<jobs, queue, sessions, rowids, workers, ingest, deleter, hist>>

JobIds == 1..Len(jobs)

SessionIds == 1..Len(sessions)

\* The texts the AI adapter can return.
AITexts == {"a", "b"}

\* A worker between two jobs.
IdleWorker == [pc |-> "idle", job |-> 0, attempts |-> 0, tr |-> FALSE, su |-> FALSE,
               res |-> ""]

IdleRequest == [pc |-> "idle", sid |-> 0, jid |-> 0]

IdleDeleter == [pc |-> "idle", sid |-> 0, sel |-> {}]

\* create_session: status processing, no transcript, no summary; the asset
\* of an ingested session has been uploaded, so its file is on disk.
NewSession == [exists |-> TRUE, status |-> "processing", file |-> TRUE,
               transcript |-> None, summary |-> None]

\* What DELETE FROM sessions leaves: the row is gone and the transcript and
\* summary go with it (cascade="all, delete-orphan", ondelete="CASCADE").
DeletedSession(s) == [s EXCEPT !.exists = FALSE, !.transcript = None, !.summary = None]

\* The history is kept by the specifications that need it, each its own, and
\* stays empty in the others.
NoHistory == <<>>

Init ==
    /\ jobs = <<>>
    /\ queue = <<>>
    /\ sessions = <<>>
    /\ rowids = [transcript |-> 1, summary |-> 1]
    /\ workers = [w \in Workers |-> IdleWorker]
    /\ ingest = IdleRequest
    /\ deleter = IdleDeleter
    /\ hist = NoHistory

\* ------------------------------------------------- ingest_recording, enqueue
\* uploads.py ingest_recording: create_session commits the new session.
ingest_create_session ==
    /\ ingest.pc = "idle"
    /\ Len(sessions) < MaxSessions
    /\ Len(jobs) < MaxJobs
    /\ sessions' = Append(sessions, NewSession)
    /\ ingest' = [IdleRequest EXCEPT !.pc = "enq_commit", !.sid = Len(sessions) + 1]
    /\ UNCHANGED <<jobs, queue, rowids, workers, deleter, hist>>

\* enqueue_transcription, lines 20-22: the INSERT commits.  The foreign key
\* jobs.session_id rejects a session that was deleted meanwhile.
enqueue_transcription_commit ==
    /\ ingest.pc = "enq_commit"
    /\ IF sessions[ingest.sid].exists
       THEN /\ jobs' = Append(jobs, NewJob(ingest.sid))
            /\ ingest' = [ingest EXCEPT !.pc = "enq_put", !.jid = Len(jobs) + 1]
       ELSE /\ ingest' = IdleRequest
            /\ UNCHANGED jobs
    /\ UNCHANGED <<queue, sessions, rowids, workers, deleter, hist>>

\* enqueue_transcription, line 24, after the awaits of commit and refresh.
enqueue_transcription_put ==
    /\ ingest.pc = "enq_put"
    /\ queue' = Append(queue, ingest.jid)
    /\ ingest' = IdleRequest
    /\ UNCHANGED <<jobs, sessions, rowids, workers, deleter, hist>>

\* ------------------------------------------------------------- reserve_next
SetWorker(w, rec) == workers' = [workers EXCEPT ![w] = rec]

\* The WHERE of line 32 letting processing rows through as well.
UnfinishedIds == {j \in JobIds : jobs[j].status \in {"pending", "processing"}}

\* Line 32: where(Job.status == "pending").
PendingIds == {j \in JobIds : jobs[j].status = "pending"}

\* The same SELECT with order_by(created_at.desc()).
NewestPending == CHOOSE j \in PendingIds : \A k \in PendingIds : j >= k

\* select(Job).where(status == "pending").order_by(created_at.asc()), first row;
\* ids are given in creation order.
OldestPending == CHOOSE j \in PendingIds : \A k \in PendingIds : j <= k

\* run_worker line 95, reserve_next line 30: get_nowait() returns an id.
reserve_next_get_nowait(w) ==
    /\ workers[w].pc = "idle"
    /\ queue # <<>>
    /\ queue' = Tail(queue)
    /\ SetWorker(w, [IdleWorker EXCEPT !.pc = "res_get", !.job = Head(queue)])
    /\ UNCHANGED <<jobs, sessions, rowids, ingest, deleter, hist>>

\* reserve_next line 31: get_nowait() raises QueueEmpty.
reserve_next_queue_empty(w) ==
    /\ workers[w].pc = "idle"
    /\ queue = <<>>
    /\ SetWorker(w, [IdleWorker EXCEPT !.pc = "res_scan"])
    /\ UNCHANGED <<jobs, queue, sessions, rowids, ingest, deleter, hist>>

\* reserve_next line 35: db.get(Job, job_id) loads the row whatever its status.
reserve_next_get(w) ==
    /\ workers[w].pc = "res_get"
    /\ SetWorker(w, [workers[w] EXCEPT !.pc = "res_commit",
                                       !.attempts = jobs[workers[w].job].attempts])
    /\ UNCHANGED <<jobs, queue, sessions, rowids, ingest, deleter, hist>>

\* reserve_next lines 32-33 and 36-37: the fallback scan; with no pending job
\* reserve_next returns None and run_worker sleeps poll_interval.
reserve_next_scan(w) ==
    /\ workers[w].pc = "res_scan"
    /\ IF PendingIds = {}
       THEN SetWorker(w, IdleWorker)
       ELSE SetWorker(w, [workers[w] EXCEPT !.pc = "res_commit",
                                            !.job = OldestPending,
                                            !.attempts = jobs[OldestPending].attempts])
    /\ UNCHANGED <<jobs, queue, sessions, rowids, ingest, deleter, hist>>

\* reserve_next lines 38-42: the commit; run_worker then calls the handler
\* (line 100).
reserve_next_write(w) ==
    /\ workers[w].pc = "res_commit"
    /\ jobs' = [jobs EXCEPT ![workers[w].job] = ReservedRow(@, workers[w].attempts)]
    /\ SetWorker(w, [workers[w] EXCEPT !.pc = "h_load", !.attempts = @ + 1])
    /\ UNCHANGED <<queue, sessions, rowids, ingest, deleter>>

reserve_next_commit(w) == reserve_next_write(w) /\ UNCHANGED hist

\* ---------------------------------------------------------- process_session
SessionOf(w) == jobs[workers[w].job].payload

\* f"{type(e).__name__}: {str(e)}" of the exception the handler raised.
HandlerError == Text(MsgLen)

\* What a worker keeps when it leaves process_session: its job object.
Leave(w, pc) == [IdleWorker EXCEPT !.pc = pc, !.job = workers[w].job,
                                   !.attempts = workers[w].attempts]

\* The exception is lost: process_session returns normally.
RaiseSwallowed(w) == SetWorker(w, Leave(w, "complete"))

\* process_session raises: the handler's except clause is next.
Raise(w) == SetWorker(w, Leave(w, "h_exc"))

\* Lines 126-127 taken as never true: no summary is written.
NextWriteNoSummary(tr, su) == IF ~tr THEN "h_transcript" ELSE "h_status"

\* Lines 76-77 and 126-127 on the worker's session object: the next write of
\* process_session once the AI result is there (tr, su: the object has a
\* transcript, a summary).
NextWrite(tr, su) == IF ~tr THEN "h_transcript" ELSE IF ~su THEN "h_summary" ELSE "h_status"

\* Lines 188-194 with "or" for "and".
FinalStatusEither(tr, su) == IF tr \/ su THEN "ready" ELSE "processing"

\* Lines 188-194.
FinalStatus(tr, su) == IF tr /\ su THEN "ready" ELSE "processing"

\* Lines 30-49 without the idempotency check of lines 51-57.
process_session_load_unchecked(w) ==
    /\ workers[w].pc = "h_load"
    /\ LET s == sessions[SessionOf(w)] IN
         IF ~s.exists \/ ~s.file
         THEN Raise(w)
         ELSE SetWorker(w, [workers[w] EXCEPT !.pc = "h_ai", !.tr = (s.transcript # None),
                                              !.su = (s.summary # None)])
    /\ UNCHANGED <<jobs, queue, sessions, rowids, ingest, deleter, hist>>

\* Lines 30-57 without the path.exists() check of lines 47-49.
process_session_load_file_unchecked(w) ==
    /\ workers[w].pc = "h_load"
    /\ LET s == sessions[SessionOf(w)] IN
         IF ~s.exists
         THEN Raise(w)
         ELSE IF s.transcript # None /\ s.summary # None
         THEN SetWorker(w, [workers[w] EXCEPT !.pc = "h_done", !.tr = TRUE, !.su = TRUE])
         ELSE SetWorker(w, [workers[w] EXCEPT !.pc = "h_ai", !.tr = (s.transcript # None),
                                              !.su = (s.summary # None)])
    /\ UNCHANGED <<jobs, queue, sessions, rowids, ingest, deleter, hist>>

\* Lines 30-57: load the session with its asset, transcript and summary; 404 if
\* the session or the audio file is missing; then the idempotency check.
process_session_load(w) ==
    /\ workers[w].pc = "h_load"
    /\ LET s == sessions[SessionOf(w)] IN
         IF ~s.exists \/ ~s.file
         THEN Raise(w)
         ELSE IF s.transcript # None /\ s.summary # None
         THEN SetWorker(w, [workers[w] EXCEPT !.pc = "h_done", !.tr = TRUE, !.su = TRUE])
         ELSE SetWorker(w, [workers[w] EXCEPT !.pc = "h_ai", !.tr = (s.transcript # None),
                                              !.su = (s.summary # None)])
    /\ UNCHANGED <<jobs, queue, sessions, rowids, ingest, deleter, hist>>

\* Lines 54-57: the commit of status ready on the short-circuit; an UPDATE of a
\* row that is gone raises.
process_session_already_done(w) ==
    /\ workers[w].pc = "h_done"
    /\ IF sessions[SessionOf(w)].exists
       THEN /\ sessions' = [sessions EXCEPT ![SessionOf(w)].status = "ready"]
            /\ SetWorker(w, Leave(w, "complete"))
       ELSE /\ Raise(w)
            /\ UNCHANGED sessions
    /\ UNCHANGED <<jobs, queue, rowids, ingest, deleter, hist>>

\* Line 63: transcribe_and_analyze returns a result.
transcribe_and_analyze_returns(w, text) ==
    /\ workers[w].pc = "h_ai"
    /\ SetWorker(w, [workers[w] EXCEPT !.pc = NextWrite(workers[w].tr, workers[w].su),
                                       !.res = text])
    /\ UNCHANGED <<jobs, queue, sessions, rowids, ingest, deleter, hist>>

\* Lines 65-74: transcribe_and_analyze raises; the session is committed as
\* failed and the HTTPException leaves process_session.
transcribe_and_analyze_raises_write(w) ==
    /\ workers[w].pc = "h_ai"
    /\ IF sessions[SessionOf(w)].exists
       THEN sessions' = [sessions EXCEPT ![SessionOf(w)].status = "failed"]
       ELSE UNCHANGED sessions
    /\ Raise(w)
    /\ UNCHANGED <<jobs, queue, rowids, ingest, deleter>>

transcribe_and_analyze_raises(w) ==
    transcribe_and_analyze_raises_write(w) /\ UNCHANGED hist

\* The INSERT without the unique constraint on session_id: the row the session
\* had is no longer the one it shows.
CanInsertUnconstrained(sid, column) == sessions[sid].exists

\* The INSERT of a transcript or summary row for session sid can commit: the
\* session is there (foreign key) and has no such row yet (unique constraint).
CanInsert(sid, column) == sessions[sid].exists /\ sessions[sid][column] = None

\* Lines 79-87: the transcript INSERT commits, or fails (constraint or storage
\* error), is rolled back and raised (lines 90-96).
process_session_save_transcript_write(w, stored) ==
    /\ workers[w].pc = "h_transcript"
    /\ IF stored /\ CanInsert(SessionOf(w), "transcript")
       THEN /\ sessions' = [sessions EXCEPT ![SessionOf(w)].transcript =
                               Some([id |-> rowids.transcript, text |-> workers[w].res])]
            /\ rowids' = [rowids EXCEPT !.transcript = @ + 1]
            /\ SetWorker(w, [workers[w] EXCEPT !.pc = "h_transcript_refresh"])
       ELSE /\ Raise(w)
            /\ UNCHANGED <<sessions, rowids>>
    /\ UNCHANGED <<jobs, queue, ingest, deleter>>

process_session_save_transcript(w, stored) ==
    process_session_save_transcript_write(w, stored) /\ UNCHANGED hist

\* Line 88: db.refresh(session_obj) inside the try of lines 86-96.
process_session_refresh_transcript(w) ==
    /\ workers[w].pc = "h_transcript_refresh"
    /\ LET s == sessions[SessionOf(w)] IN
         IF s.exists
         THEN SetWorker(w, [workers[w] EXCEPT
                  !.pc = NextWrite(s.transcript # None, s.summary # None),
                  !.tr = (s.transcript # None), !.su = (s.summary # None),
                  !.res = IF s.summary # None THEN "" ELSE @])
         ELSE Raise(w)
    /\ UNCHANGED <<jobs, queue, sessions, rowids, ingest, deleter, hist>>

\* Lines 165-174 and 177-186: the summary INSERT commits, or fails, is rolled
\* back and the error is swallowed.
process_session_save_summary_write(w, stored) ==
    /\ workers[w].pc = "h_summary"
    /\ IF stored /\ CanInsert(SessionOf(w), "summary")
       THEN /\ sessions' = [sessions EXCEPT ![SessionOf(w)].summary =
                               Some([id |-> rowids.summary, summary |-> workers[w].res])]
            /\ rowids' = [rowids EXCEPT !.summary = @ + 1]
            /\ SetWorker(w, [workers[w] EXCEPT !.pc = "h_summary_refresh", !.res = ""])
       ELSE /\ SetWorker(w, [workers[w] EXCEPT !.pc = "h_status", !.res = ""])
            /\ UNCHANGED <<sessions, rowids>>
    /\ UNCHANGED <<jobs, queue, ingest, deleter>>

process_session_save_summary(w, stored) ==
    process_session_save_summary_write(w, stored) /\ UNCHANGED hist

\* Line 175 left out: the session object is not refreshed.
process_session_refresh_summary_stale(w) ==
    /\ workers[w].pc = "h_summary_refresh"
    /\ SetWorker(w, [workers[w] EXCEPT !.pc = "h_status"])
    /\ UNCHANGED <<jobs, queue, sessions, rowids, ingest, deleter, hist>>

\* Line 175: db.refresh(session_obj) inside the try of lines 173-186, whose
\* except swallows a failed refresh too.
process_session_refresh_summary(w) ==
    /\ workers[w].pc = "h_summary_refresh"
    /\ LET s == sessions[SessionOf(w)] IN
         IF s.exists
         THEN SetWorker(w, [workers[w] EXCEPT !.pc = "h_status",
                  !.tr = (s.transcript # None), !.su = (s.summary # None)])
         ELSE SetWorker(w, [workers[w] EXCEPT !.pc = "h_status"])
    /\ UNCHANGED <<jobs, queue, sessions, rowids, ingest, deleter, hist>>

\* Lines 188-196: ready only with both rows on the session object, else
\* processing; the commit raises if the session row is gone.
process_session_set_status(w) ==
    /\ workers[w].pc = "h_status"
    /\ IF sessions[SessionOf(w)].exists
       THEN /\ sessions' = [sessions EXCEPT ![SessionOf(w)].status =
                               FinalStatus(workers[w].tr, workers[w].su)]
            /\ SetWorker(w, Leave(w, "complete"))
       ELSE /\ Raise(w)
            /\ UNCHANGED sessions
    /\ UNCHANGED <<jobs, queue, rowids, ingest, deleter, hist>>

\* app.py handler, lines 120-127: on any exception of process_session the
\* session, if it is still there, is committed as failed and the exception is
\* raised again to run_worker.
handler_except(w) ==
    /\ workers[w].pc = "h_exc"
    /\ IF sessions[SessionOf(w)].exists
       THEN sessions' = [sessions EXCEPT ![SessionOf(w)].status = "failed"]
       ELSE UNCHANGED sessions
    /\ SetWorker(w, Leave(w, "mark_failed"))
    /\ UNCHANGED <<jobs, queue, rowids, ingest, deleter, hist>>

\* ------------------------------------------------ mark_failed, mark_complete
\* run_worker lines 101-103 and mark_failed lines 51-56 / 59-64: the commit.
\* After the terminal branch run_worker loops without a backoff (line 105).
mark_failed_commit(w) ==
    /\ workers[w].pc = "mark_failed"
    /\ jobs' = [jobs EXCEPT ![workers[w].job] =
                   FailedRow(@, workers[w].attempts, HandlerError, DefaultMaxRetries)]
    /\ IF WillRetry(workers[w].attempts, DefaultMaxRetries)
       THEN SetWorker(w, [workers[w] EXCEPT !.pc = "mark_failed_put"])
       ELSE SetWorker(w, IdleWorker)
    /\ UNCHANGED <<queue, sessions, rowids, ingest, deleter, hist>>

\* mark_failed line 58: the id goes back onto the queue; run_worker then
\* sleeps its backoff (lines 105-106) and loops.
mark_failed_put(w) ==
    /\ workers[w].pc = "mark_failed_put"
    /\ queue' = Append(queue, workers[w].job)
    /\ SetWorker(w, IdleWorker)
    /\ UNCHANGED <<jobs, sessions, rowids, ingest, deleter, hist>>

\* run_worker lines 107-108 without the call of mark_complete.
mark_complete_unrecorded(w) ==
    /\ workers[w].pc = "complete"
    /\ SetWorker(w, IdleWorker)
    /\ UNCHANGED <<jobs, queue, sessions, rowids, ingest, deleter, hist>>

\* run_worker lines 107-108, mark_complete.
mark_complete(w) ==
    /\ workers[w].pc = "complete"
    /\ jobs' = [jobs EXCEPT ![workers[w].job] = CompletedRow(@)]
    /\ SetWorker(w, IdleWorker)
    /\ UNCHANGED <<queue, sessions, rowids, ingest, deleter, hist>>

\* ------------------------------------------------------------ delete_session
\* delete_session lines 89-96 and cancel_session_jobs lines 68-73: the session
\* is loaded and its pending and processing jobs are selected.
delete_session_select(s) ==
    /\ deleter.pc = "idle"
    /\ sessions[s].exists
    /\ LET sel == {j \in JobIds : CancelSelects(jobs[j], s)} IN
         deleter' = [pc |-> IF sel = {} THEN "unlink" ELSE "cancel_commit",
                     sid |-> s, sel |-> sel]
    /\ UNCHANGED <<jobs, queue, sessions, rowids, workers, ingest, hist>>

\* cancel_session_jobs lines 75-83: every selected job is committed as failed.
cancel_session_jobs_write ==
    /\ deleter.pc = "cancel_commit"
    /\ jobs' = [j \in JobIds |-> IF j \in deleter.sel THEN CancelledRow(jobs[j]) ELSE jobs[j]]
    /\ deleter' = [deleter EXCEPT !.pc = "unlink", !.sel = {}]
    /\ UNCHANGED <<queue, sessions, rowids, workers, ingest>>

cancel_session_jobs_commit == cancel_session_jobs_write /\ UNCHANGED hist

\* delete_session lines 102-108: the audio file is removed.
delete_session_unlink ==
    /\ deleter.pc = "unlink"
    /\ sessions' = [sessions EXCEPT ![deleter.sid].file = FALSE]
    /\ deleter' = [deleter EXCEPT !.pc = "delete"]
    /\ UNCHANGED <<jobs, queue, rowids, workers, ingest, hist>>

\* delete_session lines 111-112: the session row is deleted; jobs.session_id
\* is ON DELETE SET NULL (models/job.py line 24), NULL is 0 here.
delete_session_commit ==
    /\ deleter.pc = "delete"
    /\ sessions' = [sessions EXCEPT ![deleter.sid] = DeletedSession(@)]
    /\ jobs' = [j \in JobIds |-> IF jobs[j].session_id = deleter.sid
                                 THEN [jobs[j] EXCEPT !.session_id = 0] ELSE jobs[j]]
    /\ deleter' = IdleDeleter
    /\ UNCHANGED <<queue, rowids, workers, ingest, hist>>

\* regenerate_summary without the check of lines 70-72 that the session has a
\* transcript.
regenerate_summary_unchecked(s, text) ==
    /\ CanInsert(s, "summary")
    /\ sessions' = [sessions EXCEPT
           ![s].summary = Some([id |-> rowids.summary, summary |-> text]),
           ![s].status = IF @ = "processing" THEN "ready" ELSE @]
    /\ rowids' = [rowids EXCEPT !.summary = @ + 1]
    /\ UNCHANGED <<jobs, queue, workers, ingest, deleter, hist>>

\* ------------------------------------------- scripts/fix_missing_summaries.py
\* regenerate_summary, lines 64-103, for a session that
\* find_sessions_without_summaries returned: it has a transcript and no summary.
\* gemini.summarize returns, the summary INSERT commits, the session is refreshed
\* and, if its status is processing, committed as ready.  A call or INSERT that
\* fails is rolled back and changes nothing (lines 108-111), and the INSERT
\* commits only if the session is still there without a summary, so the rows
\* read at the start need no copy here.
regenerate_summary(s, text) ==
    /\ sessions[s].transcript # None
    /\ CanInsert(s, "summary")
    /\ sessions' = [sessions EXCEPT
           ![s].summary = Some([id |-> rowids.summary, summary |-> text]),
           ![s].status = IF @ = "processing" THEN "ready" ELSE @]
    /\ rowids' = [rowids EXCEPT !.summary = @ + 1]
    /\ UNCHANGED <<jobs, queue, workers, ingest, deleter, hist>>

\* ---------------------------------------------------------------- the system
run_worker(w) ==
    \/ reserve_next_get_nowait(w)
    \/ reserve_next_queue_empty(w)
    \/ reserve_next_get(w)
    \/ reserve_next_scan(w)
    \/ reserve_next_commit(w)
    \/ process_session_load(w)
    \/ process_session_already_done(w)
    \/ \E text \in AITexts : transcribe_and_analyze_returns(w, text)
    \/ transcribe_and_analyze_raises(w)
    \/ \E stored \in BOOLEAN : process_session_save_transcript(w, stored)
    \/ process_session_refresh_transcript(w)
    \/ \E stored \in BOOLEAN : process_session_save_summary(w, stored)
    \/ process_session_refresh_summary(w)
    \/ process_session_set_status(w)
    \/ handler_except(w)
    \/ mark_failed_commit(w)
    \/ mark_failed_put(w)
    \/ mark_complete(w)

Next ==
    \/ ingest_create_session
    \/ enqueue_transcription_commit
    \/ enqueue_transcription_put
    \/ \E s \in SessionIds : delete_session_select(s)
    \/ cancel_session_jobs_commit
    \/ delete_session_unlink
    \/ delete_session_commit
    \/ \E s \in SessionIds, text \in AITexts : regenerate_summary(s, text)
    \/ \E w \in Workers : run_worker(w)

Spec == Init /\ [][Next]_vars

\* ------------------------------------------- a handler that always throws
\* Uploads whose transcription fails at every attempt: the AI adapter raises
\* each time it is called.  hist.runs[j] counts the handler invocations for
\* job j, one for each reserve_next that returns j to a worker.
InitFailing ==
    /\ jobs = <<>>
    /\ queue = <<>>
    /\ sessions = <<>>
    /\ rowids = [transcript |-> 1, summary |-> 1]
    /\ workers = [w \in Workers |-> IdleWorker]
    /\ ingest = IdleRequest
    /\ deleter = IdleDeleter
    /\ hist = [runs |-> [j \in 1..MaxJobs |-> 0]]

\* reserve_next, lines 38-42, and run_worker, line 101: the handler is invoked.
reserve_next_invokes(w) ==
    /\ reserve_next_write(w)
    /\ hist' = [hist EXCEPT !.runs[workers[w].job] = @ + 1]

run_worker_failing(w) ==
    \/ reserve_next_get_nowait(w)
    \/ reserve_next_queue_empty(w)
    \/ reserve_next_get(w)
    \/ reserve_next_scan(w)
    \/ reserve_next_invokes(w)
    \/ process_session_load(w)
    \/ transcribe_and_analyze_raises(w)
    \/ handler_except(w)
    \/ mark_failed_commit(w)
    \/ mark_failed_put(w)

NextFailing ==
    \/ ingest_create_session
    \/ enqueue_transcription_commit
    \/ enqueue_transcription_put
    \/ \E w \in Workers : run_worker_failing(w)

SpecFailing == InitFailing /\ [][NextFailing]_vars

\* ------------------------------------------------- the offline stub adapter
\* No GEMINI_API_KEY: transcribe_and_analyze returns its placeholder result
\* (gemini_service.py lines 38-50) and nothing else fails by itself.  Every
\* worker task and the ingest request keep being scheduled by the event loop.
\* hist.runs[j] counts the handler invocations for job j.
StubText == "a"

run_worker_stub(w) ==
    \/ reserve_next_get_nowait(w)
    \/ reserve_next_queue_empty(w)
    \/ reserve_next_get(w)
    \/ reserve_next_scan(w)
    \/ reserve_next_invokes(w)
    \/ process_session_load(w)
    \/ process_session_already_done(w)
    \/ transcribe_and_analyze_returns(w, StubText)
    \/ process_session_save_transcript(w, TRUE)
    \/ process_session_refresh_transcript(w)
    \/ process_session_save_summary(w, TRUE)
    \/ process_session_refresh_summary(w)
    \/ process_session_set_status(w)
    \/ handler_except(w)
    \/ mark_failed_commit(w)
    \/ mark_failed_put(w)
    \/ mark_complete(w)

NextStub ==
    \/ ingest_create_session
    \/ enqueue_transcription_commit
    \/ enqueue_transcription_put
    \/ \E w \in Workers : run_worker_stub(w)

SpecStub ==
    /\ InitFailing
    /\ [][NextStub]_vars
    /\ WF_vars(enqueue_transcription_commit)
    /\ WF_vars(enqueue_transcription_put)
    /\ \A w \in Workers : WF_vars(run_worker_stub(w))

\* ------------------------------------------------------ one attempt at a time
\* One upload and one worker (BACKGROUND_WORKER_CONCURRENCY=1): every attempt
\* runs alone.  The AI adapter and the storage may fail and the handler's
\* deadline may pass.  hist is about the attempt under way or just ended: what
\* went wrong in it (swallowed: a summary failure was swallowed; ai_raised: the
\* AI call raised; timed_out: the deadline passed) and the session's
\* transcript and summary rows when it started.
TheWorker == 1

NoEvent == [swallowed |-> FALSE, ai_raised |-> FALSE, timed_out |-> FALSE, rows |-> <<>>]

InitAttempt ==
    /\ jobs = <<>>
    /\ queue = <<>>
    /\ sessions = <<>>
    /\ rowids = [transcript |-> 1, summary |-> 1]
    /\ workers = [w \in Workers |-> IdleWorker]
    /\ ingest = IdleRequest
    /\ deleter = IdleDeleter
    /\ hist = NoEvent

\* The transcript and summary rows of session sid.
RowsOf(sid) == <<sessions[sid].transcript, sessions[sid].summary>>

\* reserve_next lines 38-42 and run_worker line 100: an attempt starts.
reserve_next_attempt(w) ==
    /\ reserve_next_write(w)
    /\ hist' = [NoEvent EXCEPT !.rows = RowsOf(SessionOf(w))]

\* Lines 64-74 of process_session.
transcribe_and_analyze_raises_noted(w) ==
    /\ transcribe_and_analyze_raises_write(w)
    /\ hist' = [hist EXCEPT !.ai_raised = TRUE]

\* Lines 165-186 of process_session.
process_session_save_summary_noted(w, stored) ==
    /\ process_session_save_summary_write(w, stored)
    /\ hist' = [hist EXCEPT !.swallowed = @ \/ ~stored]

\* Where a worker is while process_session runs under asyncio.wait_for.
ProcessSessionPcs == {"h_load", "h_done", "h_ai", "h_transcript", "h_transcript_refresh",
                      "h_summary", "h_summary_refresh", "h_status"}

\* app.py lines 107-110: the 600 s of wait_for are over; process_session is
\* cancelled where it awaits and asyncio.TimeoutError is raised in the handler.
handler_timeout(w) ==
    /\ workers[w].pc \in ProcessSessionPcs
    /\ SetWorker(w, Leave(w, "h_timeout"))
    /\ hist' = [hist EXCEPT !.timed_out = TRUE]
    /\ UNCHANGED <<jobs, queue, sessions, rowids, ingest, deleter>>

\* Lines 112-118 without the raise of line 119: the handler returns.
handler_except_timeout_returns(w) ==
    /\ workers[w].pc = "h_timeout"
    /\ IF sessions[SessionOf(w)].exists
       THEN sessions' = [sessions EXCEPT ![SessionOf(w)].status = "failed"]
       ELSE UNCHANGED sessions
    /\ SetWorker(w, Leave(w, "complete"))
    /\ UNCHANGED <<jobs, queue, rowids, ingest, deleter, hist>>

\* app.py lines 112-119: the session, if it is still there, is committed as
\* failed and the TimeoutError is raised again to run_worker.
handler_except_timeout(w) ==
    /\ workers[w].pc = "h_timeout"
    /\ IF sessions[SessionOf(w)].exists
       THEN sessions' = [sessions EXCEPT ![SessionOf(w)].status = "failed"]
       ELSE UNCHANGED sessions
    /\ SetWorker(w, Leave(w, "mark_failed"))
    /\ UNCHANGED <<jobs, queue, rowids, ingest, deleter, hist>>

run_worker_attempt(w) ==
    \/ reserve_next_get_nowait(w)
    \/ reserve_next_queue_empty(w)
    \/ reserve_next_get(w)
    \/ reserve_next_scan(w)
    \/ reserve_next_attempt(w)
    \/ process_session_load(w)
    \/ process_session_already_done(w)
    \/ \E text \in AITexts : transcribe_and_analyze_returns(w, text)
    \/ transcribe_and_analyze_raises_noted(w)
    \/ \E stored \in BOOLEAN : process_session_save_transcript(w, stored)
    \/ process_session_refresh_transcript(w)
    \/ \E stored \in BOOLEAN : process_session_save_summary_noted(w, stored)
    \/ process_session_refresh_summary(w)
    \/ process_session_set_status(w)
    \/ handler_timeout(w)
    \/ handler_except_timeout(w)
    \/ handler_except(w)
    \/ mark_failed_commit(w)
    \/ mark_failed_put(w)
    \/ mark_complete(w)

NextAttempt ==
    \/ ingest_create_session
    \/ enqueue_transcription_commit
    \/ enqueue_transcription_put
    \/ run_worker_attempt(TheWorker)

SpecAttempt == InitAttempt /\ [][NextAttempt]_vars

\* The same with the event loop scheduling the upload request and the worker
\* task for ever: a step of either that can be taken is taken in the end.
SpecAttemptFair ==
    /\ InitAttempt /\ [][NextAttempt]_vars
    /\ WF_vars(enqueue_transcription_commit)
    /\ WF_vars(enqueue_transcription_put)
    /\ WF_vars(run_worker_attempt(TheWorker))

\* ------------------------------------------ a rollback inside the handler
\* One upload and one worker; the transcript INSERT may fail.  process_session
\* then rolls its db session back (line 92), and Session.rollback() expires
\* every object of that session, the worker's job object among them; reading
\* an expired attribute through an AsyncSession raises.  hist.rolled_back: the
\* db session of the iteration under way was rolled back; hist.raised: the
\* handler raised in it.
InitCrash ==
    /\ jobs = <<>>
    /\ queue = <<>>
    /\ sessions = <<>>
    /\ rowids = [transcript |-> 1, summary |-> 1]
    /\ workers = [w \in Workers |-> IdleWorker]
    /\ ingest = IdleRequest
    /\ deleter = IdleDeleter
    /\ hist = [rolled_back |-> FALSE, raised |-> FALSE]

\* run_worker line 94, reserve_next lines 38-42: each iteration has its own
\* db session.
reserve_next_fresh(w) ==
    /\ reserve_next_write(w)
    /\ hist' = [rolled_back |-> FALSE, raised |-> FALSE]

\* Lines 79-96 of process_session.
process_session_save_transcript_noted(w, stored) ==
    /\ process_session_save_transcript_write(w, stored)
    /\ hist' = [hist EXCEPT !.rolled_back = ~(stored /\ CanInsert(SessionOf(w), "transcript"))]

\* app.py lines 120-127, from where the exception reaches run_worker line 101.
handler_except_raised(w) ==
    /\ workers[w].pc = "h_exc"
    /\ IF sessions[SessionOf(w)].exists
       THEN sessions' = [sessions EXCEPT ![SessionOf(w)].status = "failed"]
       ELSE UNCHANGED sessions
    /\ SetWorker(w, Leave(w, "mark_failed"))
    /\ hist' = [hist EXCEPT !.raised = TRUE]
    /\ UNCHANGED <<jobs, queue, rowids, ingest, deleter>>

\* run_worker line 103, inside the except clause: mark_failed reads
\* job.attempts (line 51) of a job object that the handler's rollback has
\* expired; the read raises, nothing in run_worker catches it and the task
\* ends with the job row as reserve_next left it.
mark_failed_raises(w) ==
    /\ workers[w].pc = "mark_failed"
    /\ hist.rolled_back
    /\ SetWorker(w, [IdleWorker EXCEPT !.pc = "dead"])
    /\ UNCHANGED <<jobs, queue, sessions, rowids, ingest, deleter, hist>>

\* run_worker line 103 when the job object can be read.
mark_failed_readable(w) ==
    /\ ~hist.rolled_back
    /\ mark_failed_commit(w)

run_worker_crash(w) ==
    \/ reserve_next_get_nowait(w)
    \/ reserve_next_queue_empty(w)
    \/ reserve_next_get(w)
    \/ reserve_next_scan(w)
    \/ reserve_next_fresh(w)
    \/ process_session_load(w)
    \/ process_session_already_done(w)
    \/ \E text \in AITexts : transcribe_and_analyze_returns(w, text)
    \/ transcribe_and_analyze_raises(w)
    \/ \E stored \in BOOLEAN : process_session_save_transcript_noted(w, stored)
    \/ process_session_refresh_transcript(w)
    \/ process_session_save_summary(w, TRUE)
    \/ process_session_refresh_summary(w)
    \/ process_session_set_status(w)
    \/ handler_except_raised(w)
    \/ mark_failed_readable(w)
    \/ mark_failed_raises(w)
    \/ mark_failed_put(w)
    \/ mark_complete(w)

NextCrash ==
    \/ ingest_create_session
    \/ enqueue_transcription_commit
    \/ enqueue_transcription_put
    \/ run_worker_crash(TheWorker)

SpecCrash == InitCrash /\ [][NextCrash]_vars

\* --------------------------------------------------------- a process restart
\* The process starts on a store that an earlier run has left: RestartJobs
\* jobs, each for a session of its own, in any of the states a job can be left
\* in.  The queue of the earlier run is gone with its process.  start_worker
\* preloads the queue and creates the workers; after that the queue can lose
\* entries, and the AI adapter may fail.  Only worker TheWorker is sure to keep
\* running.  hist.ran[j]: the handler has been invoked for job j since the start.
RestartJobs == 2

\* The rows the earlier run can have left for the job of session sid: never
\* reserved, back to pending after a failed attempt, left in processing by a
\* worker that was stopped, completed, failed for good.
StoredJobs(sid) ==
    { NewJob(sid),
      FailedRow(ReservedRow(NewJob(sid), 0), 1, HandlerError, DefaultMaxRetries),
      ReservedRow(NewJob(sid), 0),
      CompletedRow(ReservedRow(NewJob(sid), 0)),
      FailedRow(ReservedRow(NewJob(sid), DefaultMaxRetries - 1), DefaultMaxRetries,
                HandlerError, DefaultMaxRetries) }

\* The session that goes with such a job row.
StoredSession(sid, row) ==
    IF row.status = "completed"
    THEN [NewSession EXCEPT !.status = "ready",
                            !.transcript = Some([id |-> sid, text |-> StubText]),
                            !.summary = Some([id |-> sid, summary |-> StubText])]
    ELSE IF row.error # None
    THEN [NewSession EXCEPT !.status = "failed"]
    ELSE NewSession

\* A task that asyncio.create_task has not created yet.
UnstartedWorker == [IdleWorker EXCEPT !.pc = "unstarted"]

InitRestart ==
    /\ jobs \in {t \in [1..RestartJobs -> UNION {StoredJobs(sid) : sid \in 1..RestartJobs}] :
                     \A sid \in 1..RestartJobs : t[sid] \in StoredJobs(sid)}
    /\ queue = <<>>
    /\ sessions = [sid \in 1..RestartJobs |-> StoredSession(sid, jobs[sid])]
    /\ rowids = [transcript |-> RestartJobs + 1, summary |-> RestartJobs + 1]
    /\ workers = [w \in Workers |-> UnstartedWorker]
    /\ ingest = IdleRequest
    /\ deleter = IdleDeleter
    /\ hist = [ran |-> [j \in 1..RestartJobs |-> FALSE]]

\* The orders in which a SELECT without ORDER BY can return the rows ids.
Orders(ids) ==
    {q \in [1..Cardinality(ids) -> ids] : \A i, k \in 1..Cardinality(ids) : q[i] = q[k] => i = k}

\* select(Job) without the WHERE of line 92.
PreloadSelectsAll(row) == TRUE

\* app.py line 92: select(Job).where(Job.status == "pending").
PreloadSelects(row) == row.status = "pending"

\* app.py start_worker, lines 90-99 and 129-139: the selected ids are put on
\* the queue, then the worker tasks are created; nothing else runs during the
\* startup event.
start_worker ==
    /\ \A w \in Workers : workers[w].pc = "unstarted"
    /\ queue' \in Orders({j \in JobIds : PreloadSelects(jobs[j])})
    /\ workers' = [w \in Workers |-> IdleWorker]
    /\ UNCHANGED <<jobs, sessions, rowids, ingest, deleter, hist>>

\* An entry of the in-memory queue (jobs_service.py line 17) is lost.
queue_entry_lost ==
    /\ \E i \in 1..Len(queue) :
           queue' = [k \in 1..(Len(queue) - 1) |-> IF k < i THEN queue[k] ELSE queue[k + 1]]
    /\ UNCHANGED <<jobs, sessions, rowids, workers, ingest, deleter, hist>>

\* reserve_next lines 38-42 and run_worker line 100.
reserve_next_restarted(w) ==
    /\ reserve_next_write(w)
    /\ hist' = [hist EXCEPT !.ran[workers[w].job] = TRUE]

run_worker_restarted(w) ==
    \/ reserve_next_get_nowait(w)
    \/ reserve_next_queue_empty(w)
    \/ reserve_next_get(w)
    \/ reserve_next_scan(w)
    \/ reserve_next_restarted(w)
    \/ process_session_load(w)
    \/ process_session_already_done(w)
    \/ transcribe_and_analyze_returns(w, StubText)
    \/ transcribe_and_analyze_raises(w)
    \/ process_session_save_transcript(w, TRUE)
    \/ process_session_refresh_transcript(w)
    \/ process_session_save_summary(w, TRUE)
    \/ process_session_refresh_summary(w)
    \/ process_session_set_status(w)
    \/ handler_except(w)
    \/ mark_failed_commit(w)
    \/ mark_failed_put(w)
    \/ mark_complete(w)

NextRestart ==
    \/ start_worker
    \/ queue_entry_lost
    \/ \E w \in Workers : run_worker_restarted(w)

SpecRestart ==
    /\ InitRestart
    /\ [][NextRestart]_vars
    /\ WF_vars(start_worker)
    /\ WF_vars(run_worker_restarted(TheWorker))

\* ------------------------------------------------------------ session titles
\* One upload and one worker, with the title of the session: create_session
\* gives the default title or the one the client sent, the AI result may
\* suggest a title, and the user may rename the session at any time.  The
\* summary INSERT may fail, so an attempt can start on a session that has its
\* transcript already.  A titled session has the field title besides those of
\* NewSession; a worker inside process_session has the fields title (the title
\* on its session object) and ai_title (result.get("title")).
\* datetime.now(timezone.utc).strftime("Session %Y-%m-%d %H:%M")
DefaultTitle == <<"S","e","s","s","i","o","n"," ","2","0","2","5","-","0","1","-","2","2"," ","1","4",":","3","0">>

\* Titles a client sends with the upload: the name of the recording.
ClientTitles == {<<"a","u","d","i","o">>, <<"R","e","c","o","r","d","i","n","g","_","7">>}

\* Titles a user types in.
UserTitles == {<<"K","i","c","k","o","f","f">>, <<"Q","3"," ","p","l","a","n">>}

\* result.get("title"): none, or the stub's "Demo Recording".
AITitles == {<<>>, <<"D","e","m","o"," ","R","e","c","o","r","d","i","n","g">>}

UpperCase == <<"A","B","C","D","E","F","G","H","I","J","K","L","M","N","O","P","Q","R","S","T","U","V","W","X","Y","Z">>

LowerCase == <<"a","b","c","d","e","f","g","h","i","j","k","l","m","n","o","p","q","r","s","t","u","v","w","x","y","z">>

\* re.IGNORECASE on one character.
Lower(c) ==
    IF \E i \in 1..Len(UpperCase) : UpperCase[i] = c
    THEN LowerCase[CHOOSE i \in 1..Len(UpperCase) : UpperCase[i] = c]
    ELSE c

LowerAll(t) == [i \in 1..Len(t) |-> Lower(t[i])]

\* \d
IsDigit(c) == \E i \in 1..Len(Digits) : Digits[i] = c

AllDigits(t) == \A i \in 1..Len(t) : IsDigit(t[i])

\* str.startswith
StartsWith(t, p) == Len(t) >= Len(p) /\ SubSeq(t, 1, Len(p)) = p

\* Line 110: ^\d{4}-\d{2}-\d{2}[_-]\d{2}[:-]\d{2}[:-]\d{2}
LooksLikeTimestamp(t) ==
    /\ Len(t) >= 19
    /\ \A i \in {1, 2, 3, 4, 6, 7, 9, 10, 12, 13, 15, 16, 18, 19} : IsDigit(t[i])
    /\ t[5] = "-" /\ t[8] = "-"
    /\ t[11] \in {"_", "-"}
    /\ t[14] \in {":", "-"} /\ t[17] \in {":", "-"}

\* Line 111, the alternatives of the group.
GenericNames == {<<"r","e","c","o","r","d","i","n","g">>, <<"a","u","d","i","o">>, <<"f","i","l","e">>,
                 <<"u","n","t","i","t","l","e","d">>, <<"n","e","w"," ","r","e","c","o","r","d","i","n","g">>}

\* Line 111: ^(recording|audio|file|untitled|new recording)[_-]?\d*$, IGNORECASE
LooksLikeGenericName(t) ==
    \E name \in GenericNames :
        /\ StartsWith(LowerAll(t), name)
        /\ LET rest == SubSeq(t, Len(name) + 1, Len(t)) IN
             \/ AllDigits(rest)
             \/ rest # <<>> /\ rest[1] \in {"_", "-"} /\ AllDigits(Tail(rest))

\* Line 113: ^[a-f0-9]{8,}$, IGNORECASE
LooksLikeHex(t) ==
    /\ Len(t) >= 8
    /\ \A i \in 1..Len(t) : IsDigit(t[i]) \/ Lower(t[i]) \in {"a", "b", "c", "d", "e", "f"}

\* Lines 108-114: is_auto_generated.
LooksAutoGenerated(t) ==
    \/ StartsWith(t, <<"S","e","s","s","i","o","n"," ">>)
    \/ LooksLikeTimestamp(t)
    \/ LooksLikeGenericName(t)
    \/ Len(t) >= 10 /\ AllDigits(t)
    \/ LooksLikeHex(t)

\* Lines 100-115: should_update_title, decided on the session object.
ShouldUpdateTitle(w) ==
    /\ workers[w].ai_title # <<>>
    /\ workers[w].title # <<>>
    /\ LooksAutoGenerated(workers[w].title)

\* uploads.py line 108, create_session line 41: title or the default.
ingest_create_titled(title) ==
    /\ ingest.pc = "idle"
    /\ Len(sessions) < MaxSessions
    /\ Len(jobs) < MaxJobs
    /\ sessions' = Append(sessions,
           [exists |-> TRUE, status |-> "processing", file |-> TRUE,
            transcript |-> None, summary |-> None,
            title |-> IF title = <<>> THEN DefaultTitle ELSE title])
    /\ ingest' = [IdleRequest EXCEPT !.pc = "enq_commit", !.sid = Len(sessions) + 1]
    /\ UNCHANGED <<jobs, queue, rowids, workers, deleter, hist>>

\* update_title, lines 77-84.
update_title(s, new_title) ==
    /\ sessions[s].exists
    /\ sessions[s].title # new_title
    /\ sessions' = [sessions EXCEPT ![s].title = new_title]
    /\ UNCHANGED <<jobs, queue, rowids, workers, ingest, deleter, hist>>

\* The worker's objects once process_session has its session object.
InProcessSession(w, pc, s) ==
    [pc |-> pc, job |-> workers[w].job, attempts |-> workers[w].attempts,
     tr |-> (s.transcript # None), su |-> (s.summary # None), res |-> workers[w].res,
     title |-> s.title,
     ai_title |-> IF pc \in {"h_ai", "h_done"} THEN <<>> ELSE workers[w].ai_title]

\* Lines 30-57; the file is on disk and the session is there.
process_session_load_titled(w) ==
    /\ workers[w].pc = "h_load"
    /\ LET s == sessions[SessionOf(w)] IN
         SetWorker(w, InProcessSession(w,
             IF s.transcript # None /\ s.summary # None THEN "h_done" ELSE "h_ai", s))
    /\ UNCHANGED <<jobs, queue, sessions, rowids, ingest, deleter, hist>>

\* Line 63: the result, with its title; line 77 decides what comes next.
transcribe_and_analyze_titled(w, text, title) ==
    /\ workers[w].pc = "h_ai"
    /\ SetWorker(w, [workers[w] EXCEPT !.pc = IF ~workers[w].tr THEN "h_transcript"
                                                                 ELSE "h_title",
                                       !.res = text, !.ai_title = title])
    /\ UNCHANGED <<jobs, queue, sessions, rowids, ingest, deleter, hist>>

\* Line 88: db.refresh(session_obj) reads the row again, title included.
process_session_refresh_titled(w) ==
    /\ workers[w].pc = "h_transcript_refresh"
    /\ SetWorker(w, InProcessSession(w, "h_title", sessions[SessionOf(w)]))
    /\ UNCHANGED <<jobs, queue, sessions, rowids, ingest, deleter, hist>>

\* Lines 127 and 189 on the session object: what follows the title.
AfterTitle(w) == IF ~workers[w].su THEN "h_summary" ELSE "h_status"

\* Lines 100-121: the title is decided on the session object and the commit
\* writes the AI title.
process_session_update_title(w) ==
    /\ workers[w].pc = "h_title"
    /\ IF ShouldUpdateTitle(w)
       THEN /\ sessions' = [sessions EXCEPT ![SessionOf(w)].title = workers[w].ai_title]
            /\ SetWorker(w, [workers[w] EXCEPT !.pc = "h_title_refresh"])
       ELSE /\ SetWorker(w, [workers[w] EXCEPT !.pc = AfterTitle(w)])
            /\ UNCHANGED sessions
    /\ UNCHANGED <<jobs, queue, rowids, ingest, deleter, hist>>

\* Line 122: db.refresh(session_obj).
process_session_refresh_title(w) ==
    /\ workers[w].pc = "h_title_refresh"
    /\ LET s == sessions[SessionOf(w)] IN
         SetWorker(w, InProcessSession(w, IF s.summary = None THEN "h_summary" ELSE "h_status", s))
    /\ UNCHANGED <<jobs, queue, sessions, rowids, ingest, deleter, hist>>

run_worker_titled(w) ==
    \/ reserve_next_get_nowait(w)
    \/ reserve_next_queue_empty(w)
    \/ reserve_next_get(w)
    \/ reserve_next_scan(w)
    \/ reserve_next_commit(w)
    \/ process_session_load_titled(w)
    \/ process_session_already_done(w)
    \/ \E title \in AITitles : transcribe_and_analyze_titled(w, StubText, title)
    \/ process_session_save_transcript(w, TRUE)
    \/ process_session_refresh_titled(w)
    \/ process_session_update_title(w)
    \/ process_session_refresh_title(w)
    \/ \E stored \in BOOLEAN : process_session_save_summary(w, stored)
    \/ process_session_refresh_summary(w)
    \/ process_session_set_status(w)
    \/ mark_complete(w)

NextTitle ==
    \/ \E title \in {<<>>} \cup ClientTitles : ingest_create_titled(title)
    \/ enqueue_transcription_commit
    \/ enqueue_transcription_put
    \/ \E s \in SessionIds, title \in UserTitles : update_title(s, title)
    \/ run_worker_titled(TheWorker)

SpecTitle == Init /\ [][NextTitle]_vars

\* ------------------------------------------------------------------ shutdown
\* The service is shut down while the workers run, with the stub adapter.
\* Task.cancel() raises CancelledError in a worker task where it is suspended;
\* CancelledError is a BaseException, so neither "except Exception" of
\* process_session, of the handler or of run_worker (line 101) catches it, and
\* the task ends there.  A stopped worker keeps in job the job it held.
StoppedWorker(w) == [IdleWorker EXCEPT !.pc = "stopped", !.job = workers[w].job]

\* app.py shutdown_worker, lines 141-149: every worker is cancelled and awaited.
shutdown_worker ==
    /\ \A w \in Workers : workers[w].pc # "stopped"
    /\ workers' = [w \in Workers |-> StoppedWorker(w)]
    /\ UNCHANGED <<jobs, queue, sessions, rowids, ingest, deleter, hist>>

NextShutdown ==
    \/ ingest_create_session
    \/ enqueue_transcription_commit
    \/ enqueue_transcription_put
    \/ \E w \in Workers : run_worker_stub(w)
    \/ shutdown_worker

SpecShutdown == InitFailing /\ [][NextShutdown]_vars

\* ------------------------------------------------ a session deleted mid-flight
\* A session with two transcription jobs, after enqueue_transcription was called
\* twice for it: worker 1 has reserved the first job and is about to run its
\* handler, the second job is pending with its id on the queue.  The session is
\* then deleted while the workers go on.  The AI adapter and the storage work.
\* hist.one_of_each: the sessions whose delete_session found exactly one
\* pending and one processing job and has committed their cancellation.
InitCancel ==
    /\ jobs = <<ReservedRow(NewJob(1), 0), NewJob(1)>>
    /\ queue = <<2>>
    /\ sessions = <<NewSession>>
    /\ rowids = [transcript |-> 1, summary |-> 1]
    /\ workers = [w \in Workers |-> IF w = 1
                     THEN [IdleWorker EXCEPT !.pc = "h_load", !.job = 1, !.attempts = 1]
                     ELSE IdleWorker]
    /\ ingest = IdleRequest
    /\ deleter = IdleDeleter
    /\ hist = [one_of_each |-> {}]

OneOfEach(sel) ==
    /\ Cardinality(sel) = 2
    /\ \E j, k \in sel : jobs[j].status = "pending" /\ jobs[k].status = "processing"

\* cancel_session_jobs lines 75-83, as delete_session line 99 calls it.
cancel_session_jobs_cancels ==
    /\ cancel_session_jobs_write
    /\ hist' = [hist EXCEPT !.one_of_each =
                    IF OneOfEach(deleter.sel) THEN @ \cup {deleter.sid} ELSE @]

run_worker_working(w) ==
    \/ reserve_next_get_nowait(w)
    \/ reserve_next_queue_empty(w)
    \/ reserve_next_get(w)
    \/ reserve_next_scan(w)
    \/ reserve_next_commit(w)
    \/ process_session_load(w)
    \/ process_session_already_done(w)
    \/ \E text \in AITexts : transcribe_and_analyze_returns(w, text)
    \/ process_session_save_transcript(w, TRUE)
    \/ process_session_refresh_transcript(w)
    \/ process_session_save_summary(w, TRUE)
    \/ process_session_refresh_summary(w)
    \/ process_session_set_status(w)
    \/ handler_except(w)
    \/ mark_failed_commit(w)
    \/ mark_failed_put(w)
    \/ mark_complete(w)

NextCancel ==
    \/ \E s \in SessionIds : delete_session_select(s)
    \/ cancel_session_jobs_cancels
    \/ delete_session_unlink
    \/ delete_session_commit
    \/ \E w \in Workers : run_worker_working(w)

SpecCancel == InitCancel /\ [][NextCancel]_vars

\* ------------------------------------------------- process_session run again
\* One caller runs the handler on one session MaxRuns times, one run after the
\* other, as a worker does for a job that comes back to it.  The AI adapter and
\* the storage may fail, and the audio file may be removed at any time, as
\* delete_session does before it deletes the row.  hist: for each run that has
\* ended, the session's transcript and summary rows at its end (rows), its
\* status then (status), whether the run returned normally with no failure
\* swallowed (clean) or with its summary failure swallowed (absorbed);
\* swallowed: the run under way has had its summary failure swallowed.
MaxRuns == 2

InitReplay ==
    /\ jobs = <<ReservedRow(NewJob(1), 0)>>
    /\ queue = <<>>
    /\ sessions = <<NewSession>>
    /\ rowids = [transcript |-> 1, summary |-> 1]
    /\ workers = [w \in Workers |-> IF w = 1
                     THEN [IdleWorker EXCEPT !.pc = "h_load", !.job = 1, !.attempts = 1]
                     ELSE IdleWorker]
    /\ ingest = IdleRequest
    /\ deleter = IdleDeleter
    /\ hist = [rows |-> <<>>, clean |-> <<>>, absorbed |-> <<>>, status |-> <<>>,
               swallowed |-> FALSE]

\* The handler has returned (app.py line 119) or raised (line 127) to its
\* caller, who calls it again (run_worker line 101) until MaxRuns runs are done.
handler_called_again(w) ==
    /\ workers[w].pc \in {"complete", "mark_failed"}
    /\ Len(hist.rows) < MaxRuns
    /\ hist' = [rows |-> Append(hist.rows, <<sessions[SessionOf(w)].transcript,
                                             sessions[SessionOf(w)].summary>>),
                clean |-> Append(hist.clean, workers[w].pc = "complete" /\ ~hist.swallowed),
                absorbed |-> Append(hist.absorbed, workers[w].pc = "complete" /\ hist.swallowed),
                status |-> Append(hist.status, sessions[SessionOf(w)].status),
                swallowed |-> FALSE]
    /\ SetWorker(w, Leave(w, IF Len(hist.rows) + 1 < MaxRuns THEN "h_load" ELSE "idle"))
    /\ UNCHANGED <<jobs, queue, sessions, rowids, ingest, deleter>>

\* session_service.py delete_session lines 102-108 for a session whose row is
\* still there: the audio file is removed.
audio_file_unlinked(s) ==
    /\ sessions[s].exists
    /\ sessions[s].file
    /\ sessions' = [sessions EXCEPT ![s].file = FALSE]
    /\ UNCHANGED <<jobs, queue, rowids, workers, ingest, deleter, hist>>

process_session_replayed(w) ==
    \/ process_session_load(w)
    \/ process_session_already_done(w)
    \/ \E text \in AITexts : transcribe_and_analyze_returns(w, text)
    \/ transcribe_and_analyze_raises(w)
    \/ \E stored \in BOOLEAN : process_session_save_transcript(w, stored)
    \/ process_session_refresh_transcript(w)
    \/ \E stored \in BOOLEAN : process_session_save_summary_noted(w, stored)
    \/ process_session_refresh_summary(w)
    \/ process_session_set_status(w)
    \/ handler_except(w)
    \/ handler_called_again(w)

NextReplay ==
    \/ \E w \in Workers : process_session_replayed(w)
    \/ \E s \in SessionIds : audio_file_unlinked(s)

SpecReplay == InitReplay /\ [][NextReplay]_vars

\* ------------------------------------------------- the job store on its own
\* One caller uses JobsService, one call at a time, each call run to its end:
\* the specification for what a single call does to the table and the queue.
\* hist holds the last call: its name and arguments, the table and the queue
\* before it, and what it returned.
MaxStoreJobs == 2

StoreSessions == {1, 2}

\* Error messages by length: short, and around the two truncation lengths.
ErrorLens == {3, RetryErrorLen, RetryErrorLen + 1, ErrorColumnLen, ErrorColumnLen + 1}

RetryLimits == {1, DefaultMaxRetries}

LastCall(op, job, arg, ret) ==
    [op |-> op, job |-> job, arg |-> arg, ret |-> ret, jobs |-> jobs, queue |-> queue]

\* The two sessions the jobs are enqueued for.
InitStore ==
    /\ jobs = <<>>
    /\ queue = <<>>
    /\ sessions = <<NewSession, NewSession>>
    /\ rowids = [transcript |-> 1, summary |-> 1]
    /\ workers = [w \in Workers |-> IdleWorker]
    /\ ingest = IdleRequest
    /\ deleter = IdleDeleter
    /\ hist = LastCall("none", 0, <<>>, 0)

\* enqueue_transcription(db, session), lines 19-25.
enqueue_transcription(s) ==
    /\ Len(jobs) < MaxStoreJobs
    /\ jobs' = Append(jobs, NewJob(s))
    /\ queue' = Append(queue, Len(jobs) + 1)
    /\ hist' = LastCall("enqueue_transcription", Len(jobs) + 1, <<s>>, Len(jobs) + 1)
    /\ UNCHANGED <<sessions, rowids, workers, ingest, deleter>>

\* The job reserve_next picks, 0 for None (lines 29-37).
NextJob == IF queue # <<>> THEN Head(queue) ELSE IF PendingIds # {} THEN OldestPending ELSE 0

\* reserve_next(db), lines 27-42.
reserve_next ==
    /\ queue' = IF queue # <<>> THEN Tail(queue) ELSE queue
    /\ jobs' = IF NextJob = 0 THEN jobs
               ELSE [jobs EXCEPT ![NextJob] = ReservedRow(@, @.attempts)]
    /\ hist' = LastCall("reserve_next", NextJob, <<>>, NextJob)
    /\ UNCHANGED <<sessions, rowids, workers, ingest, deleter>>

\* mark_complete with an UPDATE that has no WHERE id = :id: every row that is
\* processing is completed.
mark_complete_call_all(j) ==
    /\ jobs[j].status = "processing"
    /\ jobs' = [k \in JobIds |-> IF jobs[k].status = "processing"
                                 THEN CompletedRow(jobs[k]) ELSE jobs[k]]
    /\ hist' = LastCall("mark_complete", j, <<>>, 0)
    /\ UNCHANGED <<queue, sessions, rowids, workers, ingest, deleter>>

\* mark_complete(db, job), lines 44-47, for a job reserve_next has returned.
mark_complete_call(j) ==
    /\ jobs[j].status = "processing"
    /\ jobs' = [jobs EXCEPT ![j] = CompletedRow(@)]
    /\ hist' = LastCall("mark_complete", j, <<>>, 0)
    /\ UNCHANGED <<queue, sessions, rowids, workers, ingest, deleter>>

\* mark_failed(db, job, error, max_retries), lines 49-64, for a job
\* reserve_next has returned.
mark_failed(j, error, max_retries) ==
    /\ jobs[j].status = "processing"
    /\ jobs' = [jobs EXCEPT ![j] = FailedRow(@, @.attempts, error, max_retries)]
    /\ queue' = IF WillRetry(jobs[j].attempts, max_retries) THEN Append(queue, j) ELSE queue
    /\ hist' = LastCall("mark_failed", j, <<error, max_retries>>, 0)
    /\ UNCHANGED <<sessions, rowids, workers, ingest, deleter>>

\* cancel_session_jobs(db, session_id), lines 66-85; it returns cancelled_count.
cancel_session_jobs(sid) ==
    /\ jobs' = [j \in JobIds |-> IF CancelSelects(jobs[j], sid)
                                 THEN CancelledRow(jobs[j]) ELSE jobs[j]]
    /\ hist' = LastCall("cancel_session_jobs", 0, <<sid>>,
                        Cardinality({j \in JobIds : CancelSelects(jobs[j], sid)}))
    /\ UNCHANGED <<queue, sessions, rowids, workers, ingest, deleter>>

NextStore ==
    \/ \E s \in StoreSessions : enqueue_transcription(s)
    \/ reserve_next
    \/ \E j \in JobIds : mark_complete_call(j)
    \/ \E j \in JobIds, n \in ErrorLens, m \in RetryLimits : mark_failed(j, Text(n), m)
    \/ \E s \in StoreSessions : cancel_session_jobs(s)

SpecStore == InitStore /\ [][NextStore]_vars

\* ---------------------------------------------------- the backoff of a retry
\* Uploads processed by the workers with the sleep of run_worker lines 105-106
\* made a step of its own: the AI adapter may fail, the storage works.
\* hist.sleep[w]: the seconds worker w is sleeping for, 0 if it is not in a
\* backoff; hist.slept[w]: w has finished a backoff since its last mark_failed.
BackoffLimit == 3

BackoffCap == 60

\* Line 105 with "<=" for "<".
SleepsAfterFailureInclusive(attempts) == attempts <= BackoffLimit

\* run_worker line 105: if job.attempts < 3.
SleepsAfterFailure(attempts) == attempts < BackoffLimit

\* run_worker line 106: min(2 ** job.attempts, 60).
Backoff(attempts) == Min(2 ^ attempts, BackoffCap)

InitBackoff ==
    /\ jobs = <<>>
    /\ queue = <<>>
    /\ sessions = <<>>
    /\ rowids = [transcript |-> 1, summary |-> 1]
    /\ workers = [w \in Workers |-> IdleWorker]
    /\ ingest = IdleRequest
    /\ deleter = IdleDeleter
    /\ hist = [sleep |-> [w \in Workers |-> 0], slept |-> [w \in Workers |-> FALSE]]

\* run_worker line 106 reached: the task sleeps with its job object.
Sleep(w) ==
    /\ SetWorker(w, Leave(w, "backoff"))
    /\ hist' = [hist EXCEPT !.sleep[w] = Backoff(workers[w].attempts)]

\* run_worker lines 101-103 and mark_failed lines 51-56 / 59-64: the commit.
\* After the terminal branch mark_failed has returned and line 105 is next.
mark_failed_records(w) ==
    /\ workers[w].pc = "mark_failed"
    /\ jobs' = [jobs EXCEPT ![workers[w].job] =
                   FailedRow(@, workers[w].attempts, HandlerError, DefaultMaxRetries)]
    /\ IF WillRetry(workers[w].attempts, DefaultMaxRetries)
       THEN /\ SetWorker(w, [workers[w] EXCEPT !.pc = "mark_failed_put"])
            /\ hist' = [hist EXCEPT !.slept[w] = FALSE]
       ELSE IF SleepsAfterFailure(workers[w].attempts)
       THEN Sleep(w)
       ELSE /\ SetWorker(w, IdleWorker)
            /\ hist' = [hist EXCEPT !.slept[w] = FALSE]
    /\ UNCHANGED <<queue, sessions, rowids, ingest, deleter>>

\* mark_failed line 58, then run_worker lines 105-106: the id is put on the
\* queue, mark_failed returns, and the worker sleeps if job.attempts < 3.
mark_failed_put_sleeps(w) ==
    /\ workers[w].pc = "mark_failed_put"
    /\ queue' = Append(queue, workers[w].job)
    /\ IF SleepsAfterFailure(workers[w].attempts)
       THEN Sleep(w)
       ELSE SetWorker(w, IdleWorker) /\ UNCHANGED hist
    /\ UNCHANGED <<jobs, sessions, rowids, ingest, deleter>>

\* asyncio.sleep of line 106 returns; the db session is closed (line 94) and
\* the loop starts again.
backoff_elapsed(w) ==
    /\ workers[w].pc = "backoff"
    /\ SetWorker(w, IdleWorker)
    /\ hist' = [hist EXCEPT !.sleep[w] = 0, !.slept[w] = TRUE]
    /\ UNCHANGED <<jobs, queue, sessions, rowids, ingest, deleter>>

run_worker_backoff(w) ==
    \/ reserve_next_get_nowait(w)
    \/ reserve_next_queue_empty(w)
    \/ reserve_next_get(w)
    \/ reserve_next_scan(w)
    \/ reserve_next_commit(w)
    \/ process_session_load(w)
    \/ process_session_already_done(w)
    \/ transcribe_and_analyze_returns(w, StubText)
    \/ transcribe_and_analyze_raises(w)
    \/ process_session_save_transcript(w, TRUE)
    \/ process_session_refresh_transcript(w)
    \/ process_session_save_summary(w, TRUE)
    \/ process_session_refresh_summary(w)
    \/ process_session_set_status(w)
    \/ handler_except(w)
    \/ mark_failed_records(w)
    \/ mark_failed_put_sleeps(w)
    \/ backoff_elapsed(w)
    \/ mark_complete(w)

NextBackoff ==
    \/ ingest_create_session
    \/ enqueue_transcription_commit
    \/ enqueue_transcription_put
    \/ \E w \in Workers : run_worker_backoff(w)

SpecBackoff == InitBackoff /\ [][NextBackoff]_vars

\* ------------------------------------------- jobs left behind by a stopped run
\* The service started on a database in which the earlier run left job 1 in
\* processing, its worker stopped, and the other jobs pending and never
\* reserved.  Sessions may be deleted while the workers run, and the AI
\* adapter may fail.  hist.ran[j]: job j has been reserved since the start.
InitOrphan ==
    /\ jobs = [sid \in 1..RestartJobs |->
                 IF sid = 1 THEN ReservedRow(NewJob(sid), 0) ELSE NewJob(sid)]
    /\ queue = <<>>
    /\ sessions = [sid \in 1..RestartJobs |-> StoredSession(sid, jobs[sid])]
    /\ rowids = [transcript |-> RestartJobs + 1, summary |-> RestartJobs + 1]
    /\ workers = [w \in Workers |-> UnstartedWorker]
    /\ ingest = IdleRequest
    /\ deleter = IdleDeleter
    /\ hist = [ran |-> [j \in 1..RestartJobs |-> FALSE]]

NextOrphan ==
    \/ start_worker
    \/ \E s \in SessionIds : delete_session_select(s)
    \/ cancel_session_jobs_commit
    \/ delete_session_unlink
    \/ delete_session_commit
    \/ \E w \in Workers : run_worker_restarted(w)

SpecOrphan == InitOrphan /\ [][NextOrphan]_vars

\* ================================================================ properties
\* Worker w has a job in hand: reserve_next has returned it and neither
\* mark_complete nor mark_failed has committed its outcome yet.
HoldingPcs == {"h_load", "h_done", "h_ai", "h_transcript", "h_transcript_refresh",
               "h_summary", "h_summary_refresh", "h_status", "h_exc", "complete",
               "mark_failed"}

Holds(w, j) == workers[w].pc \in HoldingPcs /\ workers[w].job = j

\* C1: no job is ever held by two workers at once: no two workers are both
\* between reserve_next having returned job j and the record of j's outcome.
C1_NoJobHeldTwice ==
    \A j \in JobIds : \A w1, w2 \in Workers : Holds(w1, j) /\ Holds(w2, j) => w1 = w2

\* C2: every reserve_next that returns a job flips a job whose stored status is
\* pending: a processing, completed or failed job is never set to processing,
\* nor are its attempts written, by reserve_next.
C2_ReservesOnlyPending ==
    [][\A w \in Workers :
          workers[w].pc = "res_commit" /\ workers'[w].pc = "h_load"
              => jobs[workers[w].job].status = "pending"]_vars

\* The status changes the job store allows.
AllowedTransitions ==
    {<<"pending", "processing">>, <<"processing", "pending">>,
     <<"processing", "completed">>, <<"processing", "failed">>, <<"pending", "failed">>}

\* C3: a job's status changes only by pending->processing, processing->pending,
\* processing->completed, processing->failed, or pending/processing->failed by
\* cancel_session_jobs; a completed or failed job never changes status again.
C3_StatusTransitions ==
    [][\A j \in JobIds :
          jobs'[j].status # jobs[j].status
              => /\ <<jobs[j].status, jobs'[j].status>> \in AllowedTransitions
                 /\ (jobs[j].status = "pending" /\ jobs'[j].status = "failed"
                        => jobs'[j].error = Some(CancelNote))]_vars

\* C4: a job whose handler throws at every attempt has its handler invoked
\* DefaultMaxRetries times and no more; when the job is failed the handler has
\* been invoked exactly DefaultMaxRetries times for it and its session is failed.
C4_BoundedRetries ==
    \A j \in JobIds :
        /\ hist.runs[j] <= DefaultMaxRetries
        /\ jobs[j].status = "failed"
               => /\ hist.runs[j] = DefaultMaxRetries
                  /\ sessions[jobs[j].payload].status = "failed"

\* C5: mark_failed(job, error, max_retries) with job.attempts < max_retries
\* leaves the job pending with the error "Retry attempts/max_retries: " and the
\* first 200 characters of error, and its id appended to the queue; otherwise
\* it leaves the job failed with the first 255 characters of error as its error
\* and the queue as it was.
C5_MarkFailed ==
    hist.op = "mark_failed" =>
        LET j == hist.job
            error == hist.arg[1]
            max_retries == hist.arg[2]
            attempts == hist.jobs[j].attempts
            First(n) == [i \in 1..(IF Len(error) < n THEN Len(error) ELSE n) |-> error[i]]
            note == <<"R","e","t","r","y"," ">> \o DecStr(attempts) \o <<"/">>
                        \o DecStr(max_retries) \o <<":"," ">>
        IN  IF attempts < max_retries
            THEN /\ jobs[j].status = "pending"
                 /\ jobs[j].error = Some(note \o First(200))
                 /\ queue = Append(hist.queue, j)
            ELSE /\ jobs[j].status = "failed"
                 /\ jobs[j].error = Some(First(255))
                 /\ queue = hist.queue

\* mark_failed has sent a job back for a retry with an error longer than the
\* note keeps.
C5_Witness ==
    /\ hist.op = "mark_failed"
    /\ Len(hist.arg[1]) > 200
    /\ jobs[hist.job].status = "pending"
    /\ queue # <<>>

\* C6: cancel_session_jobs(session_id) leaves every job of that session that was
\* pending or processing failed with the note "Cancelled by user (session
\* deleted)", leaves every other job as it was, and returns the number of jobs
\* it changed.
C6_CancelSessionJobs ==
    hist.op = "cancel_session_jobs" =>
        LET sid == hist.arg[1]
            before == hist.jobs
        IN  /\ \A j \in JobIds :
                   IF before[j].session_id = sid /\ before[j].status \in {"pending", "processing"}
                   THEN jobs[j] = [before[j] EXCEPT !.status = "failed",
                                                   !.error = Some(CancelNote)]
                   ELSE jobs[j] = before[j]
            /\ hist.ret = Cardinality({j \in JobIds : jobs[j] # before[j]})

\* cancel_session_jobs has cancelled a pending and a processing job of the session.
C6_Witness ==
    /\ hist.op = "cancel_session_jobs"
    /\ hist.ret = 2
    /\ \E j, k \in JobIds : hist.jobs[j].status = "pending" /\ hist.jobs[k].status = "processing"

\* C7: once delete_session has cancelled the one pending and the one processing
\* job of a session, both jobs are failed with the cancellation note and stay
\* so, and no worker starts a handler invocation for that session.
C7_CancelledForGood ==
    [][\A s \in hist'.one_of_each :
          /\ \A j \in JobIds :
                 jobs'[j].payload = s
                     => jobs'[j].status = "failed" /\ jobs'[j].error = Some(CancelNote)
          /\ \A w \in Workers :
                 ~ /\ workers[w].pc = "res_commit"
                   /\ workers'[w].pc = "h_load"
                   /\ jobs[workers[w].job].payload = s]_vars

\* C8: of two runs of process_session in sequence on the same session, the
\* second leaves every row the first left as it was; and if neither run raised
\* or had a failure swallowed, the session has one transcript and one summary
\* after the second run, the rows it had after the first.
C8_IdempotentReplay ==
    \A k \in 1..(Len(hist.rows) - 1) :
        /\ \A c \in 1..2 : hist.rows[k][c] # None => hist.rows[k + 1][c] = hist.rows[k][c]
        /\ hist.clean[k] /\ hist.clean[k + 1]
               => /\ hist.rows[k + 1] = hist.rows[k]
                  /\ Len(hist.rows[k + 1][1]) = 1
                  /\ Len(hist.rows[k + 1][2]) = 1

\* Two runs have ended, neither raised nor had a failure swallowed.
C8_Witness == Len(hist.rows) = 2 /\ hist.clean[1] /\ hist.clean[2]

\* C9: in every reachable state a session whose status is ready has both a
\* Transcript row and a Summary row.
C9_ReadyHasBothRows ==
    \A s \in SessionIds :
        sessions[s].exists /\ sessions[s].status = "ready"
            => sessions[s].transcript # None /\ sessions[s].summary # None

\* A session has been set to ready.
C9_Witness == \E s \in SessionIds : sessions[s].exists /\ sessions[s].status = "ready"

\* C10 as stated: process_session for a session that has a transcript and a
\* summary goes to the short-circuit whatever the audio file, and the
\* short-circuit sets the session ready and returns normally, writing no row.
C10_ShortCircuitWhateverTheFile ==
    [][\A w \in Workers :
          /\ workers[w].pc = "h_load" /\ workers'[w].pc # "h_load"
             /\ sessions[SessionOf(w)].transcript # None
             /\ sessions[SessionOf(w)].summary # None
                 => workers'[w].pc = "h_done"
          /\ workers[w].pc = "h_done" /\ workers'[w].pc # "h_done"
                 => /\ workers'[w].pc = "complete"
                    /\ sessions' = [sessions EXCEPT ![SessionOf(w)].status = "ready"]
                    /\ rowids' = rowids]_vars

\* C10: process_session for a session that has a transcript and a summary
\* checks the audio file first: with the file there it goes to the
\* short-circuit, which sets the session ready and returns normally, writing
\* no row and not calling the AI adapter; with the file gone it raises and the
\* handler sets the session failed.
C10_ShortCircuitAfterFileCheck ==
    [][\A w \in Workers :
          /\ workers[w].pc = "h_load" /\ workers'[w].pc # "h_load"
             /\ sessions[SessionOf(w)].transcript # None
             /\ sessions[SessionOf(w)].summary # None
                 => /\ workers'[w].pc = IF sessions[SessionOf(w)].file THEN "h_done" ELSE "h_exc"
                    /\ sessions' = sessions
          /\ workers[w].pc = "h_done" /\ workers'[w].pc # "h_done"
                 => /\ workers'[w].pc = "complete"
                    /\ sessions' = [sessions EXCEPT ![SessionOf(w)].status = "ready"]
                    /\ rowids' = rowids
          /\ workers[w].pc = "h_exc" /\ workers'[w].pc # "h_exc"
                 => /\ workers'[w].pc = "mark_failed"
                    /\ sessions' = [sessions EXCEPT ![SessionOf(w)].status = "failed"]]_vars

\* A second run has taken the short-circuit and returned with the session ready.
C10_Witness ==
    /\ Len(hist.rows) = 1
    /\ hist.clean[1]
    /\ workers[1].pc = "complete"
    /\ sessions[1].status = "ready"

\* C11: in an attempt whose summary failure was swallowed the handler still
\* ends in failure for run_worker: the session is left processing and the job
\* is not completed but handed to mark_failed, which sends it back to pending
\* while the attempts are below DefaultMaxRetries.
C11_SummaryFailureIsRetried ==
    hist.swallowed /\ ~hist.timed_out =>
        /\ workers[TheWorker].pc # "complete"
        /\ workers[TheWorker].pc = "idle" =>
               \A j \in JobIds :
                   /\ jobs[j].status # "completed"
                   /\ jobs[j].attempts < DefaultMaxRetries => jobs[j].status = "pending"
                   /\ sessions[jobs[j].payload].status = "processing"

C18_TimeoutIsAHandlerException ==
    [][LET w == TheWorker
           j == workers[w].job
       IN  /\ workers[w].pc = "h_timeout" /\ workers'[w] # workers[w]
                  => /\ sessions'[SessionOf(w)].status = "failed"
                     /\ workers'[w].pc = "mark_failed"
                     /\ workers'[w].job = j
           /\ hist'.timed_out => workers'[w].pc # "complete"
           /\ hist.timed_out /\ workers[w].pc = "mark_failed" /\ workers'[w].pc # "mark_failed"
                  => /\ jobs'[j] = FailedRow(jobs[j], workers[w].attempts, HandlerError,
                                             DefaultMaxRetries)
                     /\ jobs'[j].status = IF jobs[j].attempts < DefaultMaxRetries
                                          THEN "pending" ELSE "failed"]_vars

\* Every attempt of a job has timed out and the last one has left it failed.
C18_Witness ==
    /\ hist.timed_out
    /\ workers[TheWorker].pc = "idle"
    /\ \E j \in JobIds :
           /\ jobs[j].status = "failed"
           /\ jobs[j].attempts = DefaultMaxRetries
           /\ sessions[jobs[j].payload].status = "failed"
           /\ sessions[jobs[j].payload].transcript = None

\* C14: with the offline stub adapter and the audio file on disk, an enqueued
\* job leads to a state where its session has a non-empty transcript, a
\* non-empty summary and status ready and the job is completed, the handler
\* having run once for it.
C14_StubUploadProcessedOnce ==
    (\E j \in JobIds : jobs[j].status = "pending" /\ hist.runs[j] = 0) ~>
        \E j \in JobIds :
            LET s == sessions[jobs[j].payload] IN
              /\ jobs[j].status = "completed"
              /\ hist.runs[j] = 1
              /\ s.status = "ready"
              /\ s.transcript # None /\ s.transcript[1].text # ""
              /\ s.summary # None /\ s.summary[1].summary # ""

\* C15: while one worker keeps looping, every job that is pending in the store
\* is eventually reserved (its row becomes processing), whatever the queue
\* has lost.
C15_NoPendingJobSkipped ==
    \A j \in 1..RestartJobs :
        (workers[TheWorker].pc # "unstarted" /\ jobs[j].status = "pending")
            ~> (jobs[j].status = "processing")

\* C16: the start step, before any worker has run, puts on the queue the id
\* of every job whose stored status is pending exactly once and no other id,
\* and every such job is reserved and handed to the handler after the start.
C16_PreloadsPendingOnce ==
    /\ [][workers[TheWorker].pc = "unstarted" /\ workers'[TheWorker].pc # "unstarted"
            => /\ \A j \in JobIds :
                      Cardinality({i \in 1..Len(queue') : queue'[i] = j})
                          = IF jobs[j].status = "pending" THEN 1 ELSE 0
               /\ \A i \in 1..Len(queue') : queue'[i] \in JobIds
               /\ \A w \in Workers : workers[w].pc = "unstarted" /\ workers'[w] = IdleWorker
               /\ \A j \in JobIds : ~hist.ran[j]
               /\ jobs' = jobs]_vars
    /\ \A j \in 1..RestartJobs :
           (workers[TheWorker].pc = "unstarted" /\ jobs[j].status = "pending") ~> hist.ran[j]

\* Both jobs were found pending and never reserved at the start, and each has
\* been reserved once since and completed.
C16_Witness ==
    /\ workers[TheWorker].pc # "unstarted"
    /\ \A j \in 1..RestartJobs :
           hist.ran[j] /\ jobs[j].status = "completed" /\ jobs[j].attempts = 1

\* C17: whenever the handler has raised for a job, the worker's next step
\* records the outcome through mark_failed and the worker goes on to reserve
\* further jobs; no worker task ever ends, so the number of live workers
\* stays what it was.
C17_HandlerFailureKeepsTheWorker ==
    [][LET w == TheWorker
           j == workers[w].job
       IN  /\ Cardinality({v \in Workers : workers'[v].pc # "dead"}) = NumWorkers
           /\ hist.raised /\ workers[w].pc = "mark_failed" /\ workers'[w] # workers[w]
                  => /\ jobs'[j] = FailedRow(jobs[j], workers[w].attempts, HandlerError,
                                             DefaultMaxRetries)
                     /\ workers'[w].pc \in {"mark_failed_put", "idle"}]_vars

\* C19: the handler replaces the title of a session only if the AI suggested
\* a non-empty title and the title the session has at that moment looks
\* auto-generated; a title that the user has set through update_title is
\* never replaced by the handler, whenever it was set.
C19_KeepsHumanTitle ==
    [][\A s \in SessionIds :
          (/\ workers[TheWorker].pc = "h_title"
           /\ workers'[TheWorker] # workers[TheWorker]
           /\ sessions'[s].title # sessions[s].title)
              => /\ workers[TheWorker].ai_title # <<>>
                 /\ sessions'[s].title = workers[TheWorker].ai_title
                 /\ LooksAutoGenerated(sessions[s].title)
                 /\ sessions[s].title \notin UserTitles]_vars

\* C20: when the service shuts down, a worker whose handler invocation is in
\* flight exits only after the invocation has finished and its outcome has
\* been recorded by mark_complete or mark_failed: no worker stops between the
\* reservation of a job and the recording of its outcome.
C20_ShutdownLetsTheHandlerFinish ==
    [][\A w \in Workers :
          workers'[w].pc = "stopped" /\ workers[w].pc # "stopped"
              => workers[w].pc \notin ProcessSessionPcs \cup {"h_exc", "mark_failed", "complete"}]_vars

C22_JobRowsGoWithTheirSession ==
    /\ \A j \in JobIds : sessions[jobs[j].payload].exists
    /\ \A s \in SessionIds :
           ~sessions[s].exists => \A j \in JobIds : jobs[j].session_id # s

\* C23: delete_session cancels before it deletes.  The step that commits
\* cancel_session_jobs leaves every selected job failed and comes before the
\* removal of the session row, and at the step that removes the session row no
\* job that references the session is pending or processing, whatever the
\* workers did in between.
C23_CancelsBeforeItDeletes ==
    [][/\ (deleter.pc = "cancel_commit" /\ deleter' # deleter)
           => /\ deleter'.pc = "unlink"
              /\ sessions'[deleter.sid].exists
              /\ \A j \in deleter.sel : jobs'[j].status = "failed"
       /\ (deleter.pc = "delete" /\ deleter' # deleter)
           => /\ ~sessions'[deleter.sid].exists
              /\ \A j \in JobIds :
                    jobs[j].session_id = deleter.sid
                        => jobs[j].status \notin {"pending", "processing"}]_vars

\* C24: a missing audio file fails the attempt at once.  When process_session
\* loads a session that is there, whose file is gone and which does not have
\* both rows, it raises: the AI adapter is not called and nothing is written.
\* The handler's except clause then commits the session as failed, leaving its
\* transcript and summary as they were, and the job goes to mark_failed, which
\* records the failed attempt.
C24_MissingFileFailsFast ==
    [][\A w \in Workers :
        /\ ( /\ workers[w].pc = "h_load" /\ workers'[w] # workers[w]
             /\ sessions[SessionOf(w)].exists /\ ~sessions[SessionOf(w)].file
             /\ ~(sessions[SessionOf(w)].transcript # None /\ sessions[SessionOf(w)].summary # None) )
            => /\ workers'[w].pc = "h_exc"
               /\ workers'[w].job = workers[w].job
               /\ sessions' = sessions /\ rowids' = rowids /\ jobs' = jobs
        /\ ( /\ workers[w].pc = "h_exc" /\ workers'[w] # workers[w]
             /\ sessions[SessionOf(w)].exists )
            => /\ workers'[w].pc = "mark_failed"
               /\ workers'[w].job = workers[w].job
               /\ sessions'[SessionOf(w)] = [sessions[SessionOf(w)] EXCEPT !.status = "failed"]
               /\ rowids' = rowids
        /\ ( workers[w].pc = "mark_failed" /\ workers'[w] # workers[w] )
            => /\ jobs'[workers[w].job].status \in {"pending", "failed"}
               /\ jobs'[workers[w].job].error # None
               /\ jobs'[workers[w].job].attempts = jobs[workers[w].job].attempts]_vars

\* The handler has raised on a missing file: the session is failed without
\* rows and the job is at mark_failed.
C24_Witness ==
    \E w \in Workers :
        /\ workers[w].pc = "mark_failed"
        /\ sessions[SessionOf(w)].exists /\ ~sessions[SessionOf(w)].file
        /\ sessions[SessionOf(w)].status = "failed"
        /\ sessions[SessionOf(w)].transcript = None /\ sessions[SessionOf(w)].summary = None

C26_ScanTakesTheOldestPending ==
    [][\A w \in Workers :
          ( /\ workers[w].pc = "res_scan" /\ workers'[w] # workers[w]
            /\ Cardinality(PendingIds) >= 2 )
              => /\ workers'[w].pc = "res_commit"
                 /\ workers'[w].job \in PendingIds
                 /\ \A k \in PendingIds : workers'[w].job <= k
                 /\ workers'[w].attempts = jobs[workers'[w].job].attempts]_vars

\* The scan has picked job 1 with the queue empty and another job pending
\* behind it, neither of them reserved before.
C26_Witness ==
    \E w \in Workers :
        /\ workers[w].pc = "res_commit" /\ workers[w].job = 1
        /\ queue = <<>>
        /\ Cardinality(PendingIds) >= 2
        /\ \A j \in PendingIds : jobs[j].attempts = 0 /\ ~hist.ran[j]

C28_BackoffBeforeTheRequeue ==
    [][\A w \in Workers :
        /\ ( /\ workers[w].pc = "mark_failed_put" /\ workers'[w] # workers[w]
             /\ Len(queue') = Len(queue) + 1 )
            => hist.slept[w]
        /\ workers'[w].pc = "backoff"
            => \A i \in 1..Len(queue') : queue'[i] # workers'[w].job]_vars

C30_OrphanStaysProcessing ==
    [][\A j \in JobIds :
          ( jobs[j].status = "processing" /\ ~hist.ran[j] )
              => /\ \/ jobs'[j] = jobs[j]
                    \/ /\ deleter.pc = "cancel_commit" /\ j \in deleter.sel
                       /\ jobs'[j].status = "failed"
                       /\ jobs'[j].attempts = jobs[j].attempts
                 /\ ~hist'.ran[j]
                 /\ \A i \in 1..Len(queue') : queue'[i] # j
                 /\ \A w \in Workers : workers'[w].job # j]_vars

\* The workers have run a job to completion since the start and are idle with
\* the queue empty, and a job of the earlier run is still processing.
C30_Witness ==
    /\ \A w \in Workers : workers[w].pc = "idle"
    /\ queue = <<>>
    /\ \E j, k \in JobIds :
           /\ jobs[j].status = "processing" /\ ~hist.ran[j] /\ jobs[j].attempts = 1
           /\ hist.ran[k] /\ jobs[k].status = "completed"

\* C31: a session has at most one Transcript row and at most one Summary row,
\* and no step replaces or changes such a row while the session is there: a
\* transcript or summary that a session has is the same row, with the same
\* content, after every step that leaves the session in place, also when two
\* handler invocations for the session run at once with different AI results.
C31_RowsWrittenOnce ==
    [][\A s \in SessionIds :
          /\ Len(sessions'[s].transcript) <= 1 /\ Len(sessions'[s].summary) <= 1
          /\ ( sessions[s].exists /\ sessions'[s].exists )
                => /\ sessions[s].transcript # None
                        => sessions'[s].transcript = sessions[s].transcript
                   /\ sessions[s].summary # None
                        => sessions'[s].summary = sessions[s].summary]_vars

\* A handler invocation has tried to INSERT a Transcript for a session that
\* another invocation had given one meanwhile, and has raised: the session
\* and its file are there, so the raise is the unique constraint's.
C31_Witness ==
    \E w \in Workers :
        /\ workers[w].pc = "h_exc"
        /\ sessions[SessionOf(w)].exists /\ sessions[SessionOf(w)].file
        /\ sessions[SessionOf(w)].transcript # None

\* C32: the error of a job is absent or at most 255 characters long, whether
\* the retry branch of mark_failed, its terminal branch or cancel_session_jobs
\* wrote it, and however long the error message passed to mark_failed was.
C32_ErrorFitsTheColumn ==
    \A j \in JobIds :
        \/ jobs[j].error = <<>>
        \/ Len(jobs[j].error) = 1 /\ Len(jobs[j].error[1]) <= 255

\* mark_failed was given a message of more than 255 characters and has stored
\* 255 of them, with another job carrying the retry note or the cancel note.
C32_Witness ==
    /\ hist.op = "mark_failed"
    /\ Len(hist.arg[1]) > 255
    /\ jobs[hist.job].status = "failed"
    /\ Len(jobs[hist.job].error[1]) = 255
    /\ \E k \in JobIds : k # hist.job /\ jobs[k].error # <<>> /\ Len(jobs[k].error[1]) < 255

\* C33: the attempts counter of a job never exceeds max_retries: no job has
\* more than DefaultMaxRetries attempts, that is, no job whose attempts have
\* reached DefaultMaxRetries is reserved again.
C33_AttemptsWithinMaxRetries ==
    \A j \in JobIds : jobs[j].attempts <= DefaultMaxRetries

\* C34: the attempts counter of a job counts its reservations.  In every state
\* the attempts of a job equal the number of times reserve_next has returned
\* it, so each reservation adds exactly one, also when two workers reserve at
\* the same time, and nothing else changes the counter or takes it back.
C34_AttemptsCountReservations ==
    \A j \in JobIds : jobs[j].attempts = hist.runs[j]

\* C35: no summary without a transcript.  In every state a session that has a
\* Summary row has a Transcript row as well, whether the handler or
\* regenerate_summary wrote the summary.
C35_SummaryHasATranscript ==
    \A s \in SessionIds : sessions[s].summary # None => sessions[s].transcript # None

\* A session has both rows, and the summary comes from another AI result than
\* the transcript: it was written by another invocation or by
\* regenerate_summary.
C35_Witness ==
    \E s \in SessionIds :
        /\ sessions[s].exists
        /\ sessions[s].transcript # None /\ sessions[s].summary # None
        /\ sessions[s].transcript[1].text # sessions[s].summary[1].summary

C38_OwnJobOnly ==
    [][LET op == hist'.op
           J == hist'.job
       IN  /\ ( op = "reserve_next" /\ hist'.ret = 0 )
                => /\ jobs' = jobs
                   /\ queue' = queue \/ (queue # <<>> /\ queue' = Tail(queue))
                   /\ sessions' = sessions /\ rowids' = rowids
           /\ ( \/ op = "reserve_next" /\ hist'.ret # 0
                \/ op \in {"mark_complete", "mark_failed"} )
                => /\ J \in JobIds
                   /\ Len(jobs') = Len(jobs)
                   /\ \A k \in JobIds : k # J => jobs'[k] = jobs[k]
                   /\ jobs'[J].job_type = jobs[J].job_type
                   /\ jobs'[J].session_id = jobs[J].session_id
                   /\ jobs'[J].payload = jobs[J].payload
                   /\ sessions' = sessions /\ rowids' = rowids]_vars

\* mark_failed has just returned one of two jobs that were both processing:
\* the other is still processing, its row as it was.
C38_Witness ==
    /\ hist.op = "mark_failed"
    /\ \E k \in JobIds :
           /\ k # hist.job
           /\ hist.jobs[k].status = "processing" /\ hist.jobs[hist.job].status = "processing"
           /\ jobs[k] = hist.jobs[k]
           /\ jobs[hist.job] # hist.jobs[hist.job]

====
